---- MODULE Spec2Model ----
(***************************************************************************)
(* Playback session, playlist catalog and OBS bridge channel of the        *)
(* retro music player (src/src/App.tsx).                                   *)
(*                                                                         *)
(* The React component is modelled as a state machine.  Every action is    *)
(* one event handler run to completion: the handler body (with the values  *)
(* its closure captured at the last render), the batched state updates,    *)
(* the re-render (which rewrites the <audio> src attribute) and the        *)
(* effects whose dependencies changed.  The only handler that yields in    *)
(* the middle is togglePlay, at `await audioRef.current.play()`; its       *)
(* continuation is a separate action.                                      *)
(***************************************************************************)
EXTENDS Integers, Sequences, FiniteSets, TLC

(***************************************************************************)
(* Bounds of the model.                                                    *)
(***************************************************************************)
MaxSongs == 3       \* tracks in the library
MaxPlaylists == 1   \* playlists in the catalog, under Spec
MaxCatalog == 2     \* playlists in the catalog, under SpecCatalog
MaxClock == 2       \* readings of Date.now()
MaxPending == 1     \* togglePlay calls suspended at their await
MaxLoops == 2       \* animate loops the visualizer effect has started

(***************************************************************************)
(* Values.                                                                 *)
(***************************************************************************)
Song1 == [name |-> "track1.mp3", path |-> "/songs/track1.mp3"]
Song2 == [name |-> "track2.mp3", path |-> "/songs/track2.mp3"]
SongPool == {Song1, Song2}
NoSong == [name |-> "", path |-> ""]
NoSrc == ""
NullId == 0

\* Text is a sequence of one-character strings.
LowerChar(c) ==
  CASE c = "W" -> "w"
    [] c = "O" -> "o"
    [] c = "C" -> "c"
    [] c = "H" -> "h"
    [] c = "X" -> "x"
    [] OTHER -> c

toLowerCase(s) == [i \in 1..Len(s) |-> LowerChar(s[i])]

RECURSIVE trimStart(_)
trimStart(s) ==
  IF s # <<>> /\ Head(s) = " " THEN trimStart(Tail(s)) ELSE s

RECURSIVE trimEnd(_)
trimEnd(s) ==
  IF s # <<>> /\ s[Len(s)] = " " THEN trimEnd(SubSeq(s, 1, Len(s) - 1)) ELSE s

trim(s) == trimEnd(trimStart(s))

\* What the user may have typed into the new-playlist input.
NameInputs == { <<"W", "o">>, <<" ", "c", "h", " ">>, <<" ">> }

\* The batches of files the user may import.
ImportBatches == { << Song1, Song2, Song1 >> }

\* A frame of the bridge socket: json is what JSON.parse makes of event.data
\* ("malformed" when it throws, else "null", "number" or "object"), command is
\* data.command ("" for undefined), nameType and name are the type of data.name
\* ("absent", "string" or "number") and, for a string, its text.
Frame(json, command, nameType, name) ==
  [json |-> json, command |-> command, nameType |-> nameType, name |-> name]

NoFrame == Frame("none", "", "absent", << >>)

\* Frames the bridge may deliver.
InboundMessages ==
  { Frame("object", "skip", "absent", << >>),
    Frame("object", "library", "absent", << >>),
    Frame("object", "playlist", "string", <<"W", "O">>),
    Frame("object", "playlist", "string", <<"c", "H">>),
    Frame("object", "playlist", "string", <<"x">>),
    Frame("object", "playlist", "string", << >>),
    Frame("object", "stop", "absent", << >>) }

\* Frames of no known shape: text that is not JSON, JSON that is no object, an
\* object without command, a playlist command without name or with a number
\* (here non-zero) for a name.
InvalidFrames ==
  { Frame("malformed", "", "absent", << >>),
    Frame("null", "", "absent", << >>),
    Frame("number", "", "absent", << >>),
    Frame("object", "", "absent", << >>),
    Frame("object", "playlist", "absent", << >>),
    Frame("object", "playlist", "number", << >>) }

\* if (data.name): a non-empty string or a non-zero number.
Truthy(data) ==
  \/ data.nameType = "string" /\ data.name # << >>
  \/ data.nameType = "number"

\* window.electronAPI !== undefined: the renderer runs under Electron's preload.
isElectron == TRUE

\* Volumes are counted in hundredths (step="0.01").
InitialVolume == 70
FullVolume == 100
RangeMin == 0
RangeMax == 100

\* Positions the user may ask of the volume slider, in hundredths.
VolumeInputs == { 0 - 30, 0, 30, 150 }

\* Mutant of RangeSanitize: the control has no max attribute.
RangeSanitizeNoMax(v) == IF v < RangeMin THEN RangeMin ELSE v

\* <input type="range" min="0" max="1">: the control keeps its value within
\* min and max, so e.target.value is the asked position clamped.
RangeSanitize(v) ==
  IF v < RangeMin THEN RangeMin ELSE IF v > RangeMax THEN RangeMax ELSE v

\* gainNodeRef.current === null
NoGain == 0 - 1

\* setTimeout(connectToOBS, 3000)
ReconnectDelay == 3000

\* JavaScript's remainder, which takes the sign of the dividend.
JsMod(a, n) == IF a >= 0 THEN a % n ELSE 0 - ((0 - a) % n)

\* Array.prototype.filter((_, i) => i !== index), index counted from 0.
FilterIndex(s, index) ==
  [k \in 1..(Len(s) - (IF index \in 0..(Len(s) - 1) THEN 1 ELSE 0)) |->
      IF k <= index THEN s[k] ELSE s[k + 1]]

VARIABLES
  songs,               \* useState<Song[]>: the library
  playlists,           \* useState<Playlist[]>: the catalog
  selectedPlaylistId,  \* useState<string | null>
  currentIndex,        \* useState(0)
  isPlaying,           \* useState(false)
  draggedSong,         \* useState<Song | null>
  now,                 \* the last reading of Date.now()
  audioLoaded,         \* the resource the <audio> element last loaded
  audioPaused,         \* the <audio> element's paused attribute
  pendingPlay,         \* togglePlay calls suspended at `await play()`
  wsState,             \* the bridge socket: connecting, open or closed
  obsBridgeRef,        \* obsBridgeRef.current: "null" or "ws"
  skipHandlerRef,      \* what the playNext held by skipHandlerRef captured
  playlistHandlerRef,  \* what the switchToPlaylist held by the ref captured
  libraryHandlerRef,   \* what the switchToLibrary held by the ref captured
  lastOp,              \* the handler that ran last, with its argument
  engineCmds,          \* commands the last handler issued to the <audio> element
  sent,                \* frames the last handler sent to the bridge
  reconnectTimers,     \* delays of the armed setTimeout(connectToOBS, ...) timers
  volume,              \* useState(0.7), in hundredths
  gainNodeRef,         \* gainNodeRef.current: NoGain or gain.value in hundredths
  saved,               \* catalogs the last handler passed to savePlaylists
  visualizerEnabled,   \* useState(false); the older variants have no such switch
  animateLoops,        \* requestAnimationFrame(animate) loops that are running
  playBlocked,         \* whether the element rejects a play() the user did not start
  unhandledRejections, \* promises the last handler left rejected with no catch
  lifecycle,           \* mounted, or unmounted with the socket closed or left alone
  loadsPending         \* the startup loads (App.tsx 51-54) still awaiting their result

vars == << songs, playlists, selectedPlaylistId, currentIndex, isPlaying,
           draggedSong, now, audioLoaded, audioPaused, pendingPlay, wsState,
           obsBridgeRef, skipHandlerRef, playlistHandlerRef, libraryHandlerRef,
           lastOp, engineCmds, sent, reconnectTimers, volume, gainNodeRef, saved,
           visualizerEnabled, animateLoops, playBlocked, unhandledRejections,
           lifecycle, loadsPending >>

sessionVars == << songs, playlists, selectedPlaylistId, currentIndex, isPlaying >>

(***************************************************************************)
(* Derived render values (App.tsx 44-48).                                  *)
(***************************************************************************)
\* playlists.find((p) => p.id === id): the first match, if any.
FindIndexById(p, id) ==
  IF \E i \in 1..Len(p) : p[i].id = id
    THEN CHOOSE i \in 1..Len(p) :
           p[i].id = id /\ \A j \in 1..(i - 1) : p[j].id # id
    ELSE 0

DisplaySongsOf(s, p, sel) ==
  IF sel # NullId /\ FindIndexById(p, sel) # 0
    THEN p[FindIndexById(p, sel)].songs
    ELSE s

\* displaySongs[index]; NoSong stands for undefined.
SongAt(ds, index) ==
  IF index \in 0..(Len(ds) - 1) THEN ds[index + 1] ELSE NoSong

displaySongs == DisplaySongsOf(songs, playlists, selectedPlaylistId)
currentSong == SongAt(displaySongs, currentIndex)

(***************************************************************************)
(* Outbound frames (sendToOBS, App.tsx 115-119).                           *)
(***************************************************************************)
\* { src: song?.path, trackName: song?.name, isPlaying: true, currentTime: 0 };
\* JSON.stringify leaves out the keys whose value is undefined.
TrackChangeMsg(song) ==
  [keys |-> IF song = NoSong THEN {"isPlaying", "currentTime"}
            ELSE {"src", "trackName", "isPlaying", "currentTime"},
   src |-> song.path, trackName |-> song.name, isPlaying |-> TRUE]

PlayStateMsg(playing, withTime) ==
  [keys |-> IF withTime THEN {"isPlaying", "currentTime"} ELSE {"isPlaying"},
   src |-> NoSrc, trackName |-> "", isPlaying |-> playing]

\* Mutant of sendToOBS: the frame is sent whatever the socket's state.
sendToOBSAlways(msg) == << msg >>

sendToOBS(msg) ==
  IF obsBridgeRef = "ws" /\ wsState = "open" THEN << msg >> ELSE << >>

\* The record kept in lastOp: the handler, its index argument (for playNext and
\* playPrev the index it started from), its text argument, a note on the case it
\* took, and an origin: for a skip that directly follows a skip, the index that one
\* started from; for a resumed togglePlay, 0 when it directly follows the call.
Op(name, index, text) ==
  [name |-> name, index |-> index, text |-> text, note |-> "", origin |-> 0 - 1,
   frame |-> NoFrame]

SkipOps == {"playNext", "playPrev", "ended", "remoteSkip"}

SkipOp(name) ==
  [Op(name, currentIndex, << >>) EXCEPT
     !.note = IF lastOp.name \in SkipOps THEN lastOp.name ELSE "",
     !.origin = IF lastOp.name \in SkipOps THEN lastOp.index ELSE 0 - 1]

(***************************************************************************)
(* Commit: the batched state updates of a handler, the re-render and the   *)
(* effects.  s, p, sel, idx, play are the new React state; paused0 and     *)
(* cmds0 are the element's paused flag and the commands after the          *)
(* handler's own calls on the element.                                     *)
(***************************************************************************)
CommitWith(s, p, sel, idx, play, paused0, pend0, cmds0, loads) ==
  LET oldSrc == currentSong.path
      newSrc == SongAt(DisplaySongsOf(s, p, sel), idx).path
      \* React rewrites the src attribute; setting it to a new value makes the
      \* element run its load algorithm (which pauses it and rejects pending
      \* play promises); removing the attribute does not.
      loadNow == newSrc # NoSrc /\ newSrc # oldSrc
      \* useEffect(..., [currentIndex, selectedPlaylistId]) (App.tsx 409-413)
      effectRuns == idx # currentIndex \/ sel # selectedPlaylistId
      playNow == effectRuns /\ newSrc # NoSrc /\ play
      \* audioRef.current.play() in that effect returns a promise nothing awaits
      \* or catches (App.tsx 411); the element rejects it when playback is blocked
      playFails == playNow /\ playBlocked
      \* useEffect(..., [isPlaying, visualizerEnabled]) (App.tsx 298-314); the
      \* analyser is created together with the gain node (App.tsx 280-296), and
      \* the one step that creates it never turns isPlaying on
      loopStarts == play # isPlaying /\ visualizerEnabled /\ play
                    /\ gainNodeRef # NoGain
  IN /\ loopStarts => animateLoops < MaxLoops
     /\ songs' = s
     /\ playlists' = p
     /\ selectedPlaylistId' = sel
     /\ currentIndex' = idx
     /\ isPlaying' = play
     /\ audioLoaded' = IF loadNow THEN newSrc ELSE audioLoaded
     /\ audioPaused' = IF playNow /\ ~playFails THEN FALSE
                       ELSE IF loadNow THEN TRUE
                       ELSE paused0
     /\ pendingPlay' = IF loadNow THEN [k \in 1..Len(pend0) |-> FALSE] ELSE pend0
     /\ engineCmds' = cmds0
                      \o (IF loadNow THEN << [cmd |-> "load", src |-> newSrc] >> ELSE << >>)
                      \o (IF playNow THEN << [cmd |-> "play", src |-> newSrc] >> ELSE << >>)
     \* useEffect(..., [playlists]) (App.tsx 122-126): the auto-save
     /\ saved' = IF p # playlists /\ Len(p) > 0 /\ isElectron THEN << p >> ELSE << >>
     \* useEffect(..., [displaySongs, currentIndex]) (App.tsx 363-365)
     /\ skipHandlerRef' =
          IF DisplaySongsOf(s, p, sel) # displaySongs \/ idx # currentIndex
            THEN [displaySongs |-> DisplaySongsOf(s, p, sel), currentIndex |-> idx]
            ELSE skipHandlerRef
     \* useEffect(..., [playlists]) (App.tsx 388-390)
     /\ playlistHandlerRef' = IF p # playlists THEN p ELSE playlistHandlerRef
     \* useEffect(..., [songs]) (App.tsx 405-407)
     /\ libraryHandlerRef' = IF s # songs THEN s ELSE libraryHandlerRef
     \* setVisualizerEnabled has no caller
     /\ visualizerEnabled' = visualizerEnabled
     \* no cleanup and no cancelAnimationFrame: a loop that started keeps running
     /\ animateLoops' = IF loopStarts THEN animateLoops + 1 ELSE animateLoops
     /\ playBlocked' = playBlocked
     /\ lifecycle' = lifecycle
     /\ loadsPending' = loads
     /\ unhandledRejections' =
          IF playFails THEN << [cmd |-> "play", src |-> newSrc] >> ELSE << >>

\* The commit of a handler that settles none of the startup loads.
Commit(s, p, sel, idx, play, paused0, pend0, cmds0) ==
  CommitWith(s, p, sel, idx, play, paused0, pend0, cmds0, loadsPending)

\* The state after the first render. `visualizer` is the initial value of
\* visualizerEnabled (false in App.tsx 29; the variants without the switch
\* behave as if it were true); `blocked` is the element's autoplay policy.
MountWith(visualizer, blocked, loads) ==
  /\ songs = << >>
  /\ playlists = << >>
  /\ selectedPlaylistId = NullId
  /\ currentIndex = 0
  /\ isPlaying = FALSE
  /\ draggedSong = NoSong
  /\ now = 1
  /\ audioLoaded = NoSrc
  /\ audioPaused = TRUE
  /\ pendingPlay = << >>
  /\ wsState = "connecting"
  /\ obsBridgeRef = "null"
  /\ skipHandlerRef = [displaySongs |-> << >>, currentIndex |-> 0]
  /\ playlistHandlerRef = << >>
  /\ libraryHandlerRef = << >>
  /\ lastOp = Op("mount", 0, << >>)
  /\ engineCmds = << >>
  /\ sent = << >>
  /\ reconnectTimers = << >>
  /\ volume = InitialVolume
  /\ gainNodeRef = NoGain
  /\ saved = << >>
  /\ visualizerEnabled = visualizer
  /\ animateLoops = 0
  /\ playBlocked = blocked
  /\ unhandledRejections = << >>
  /\ lifecycle = "mounted"
  /\ loadsPending = loads

\* The first render with no startup load in flight: both have settled on an
\* empty store.
Mount(visualizer, blocked) == MountWith(visualizer, blocked, {})

Init == Mount(FALSE, FALSE)

(***************************************************************************)
(* Transport handlers.                                                     *)
(***************************************************************************)
\* What a handler that touches neither the channel nor the drag state nor the
\* clock nor the volume leaves alone.
Quiet ==
  UNCHANGED << draggedSong, now, wsState, obsBridgeRef, reconnectTimers, volume,
               gainNodeRef >>

\* (currentIndex + 1) % displaySongs.length (App.tsx 339)
NextIndex(ci, len) == JsMod(ci + 1, len)

\* Mutant of PrevIndex: the length is not added before the remainder.
PrevIndexNoLength(ci, len) == JsMod(ci - 1, len)

\* (currentIndex - 1 + displaySongs.length) % displaySongs.length (App.tsx 348)
PrevIndex(ci, len) == JsMod(ci - 1 + len, len)

\* playNext as a closure over ds = displaySongs and ci = currentIndex.
playNext(ds, ci, paused0) ==
  IF Len(ds) = 0
    THEN /\ Commit(songs, playlists, selectedPlaylistId, currentIndex, isPlaying,
                   paused0, pendingPlay, << >>)
         /\ sent' = << >>
    ELSE LET nextIndex == NextIndex(ci, Len(ds))
             nextSong == SongAt(ds, nextIndex)
         IN /\ Commit(songs, playlists, selectedPlaylistId, nextIndex, TRUE,
                      paused0, pendingPlay, << >>)
            /\ sent' = sendToOBS(TrackChangeMsg(nextSong))

\* Mutant of playPrev: the empty check comes after setIsPlaying(true).
playPrevLateCheck(ds, ci, paused0) ==
  IF Len(ds) = 0
    THEN /\ Commit(songs, playlists, selectedPlaylistId, currentIndex, TRUE,
                   paused0, pendingPlay, << >>)
         /\ sent' = << >>
    ELSE LET prevIndex == JsMod(ci - 1 + Len(ds), Len(ds))
             prevSong == SongAt(ds, prevIndex)
         IN /\ Commit(songs, playlists, selectedPlaylistId, prevIndex, TRUE,
                      paused0, pendingPlay, << >>)
            /\ sent' = sendToOBS(TrackChangeMsg(prevSong))

playPrev(ds, ci, paused0) ==
  IF Len(ds) = 0
    THEN /\ Commit(songs, playlists, selectedPlaylistId, currentIndex, isPlaying,
                   paused0, pendingPlay, << >>)
         /\ sent' = << >>
    ELSE LET prevIndex == PrevIndex(ci, Len(ds))
             prevSong == SongAt(ds, prevIndex)
         IN /\ Commit(songs, playlists, selectedPlaylistId, prevIndex, TRUE,
                      paused0, pendingPlay, << >>)
            /\ sent' = sendToOBS(TrackChangeMsg(prevSong))

\* The next button.
PlayNext ==
  /\ draggedSong = NoSong
  /\ playNext(displaySongs, currentIndex, audioPaused)
  /\ lastOp' = SkipOp("playNext")
  /\ Quiet

\* The previous button.
PlayPrev ==
  /\ draggedSong = NoSong
  /\ playPrev(displaySongs, currentIndex, audioPaused)
  /\ lastOp' = SkipOp("playPrev")
  /\ Quiet

\* <audio onEnded={playNext}>: the element has played its resource to the end
\* (it pauses itself) and fires ended.
Ended ==
  /\ ~audioPaused
  /\ audioLoaded # NoSrc
  /\ playNext(displaySongs, currentIndex, TRUE)
  /\ lastOp' = SkipOp("ended")
  /\ Quiet

\* A click on a row of the songs panel.
PlaySong(index) ==
  /\ draggedSong = NoSong
  /\ index \in 0..(Len(displaySongs) - 1)
  /\ Commit(songs, playlists, selectedPlaylistId, index, TRUE,
            audioPaused, pendingPlay, << >>)
  /\ sent' = sendToOBS(TrackChangeMsg(SongAt(displaySongs, index)))
  /\ lastOp' = Op("playSong", index, << >>)
  /\ Quiet

\* setupAnalyzer, called by togglePlay while analyserRef.current is null: the
\* gain node is created once, with gain.value = volume.
setupAnalyzer == IF gainNodeRef = NoGain THEN volume ELSE gainNodeRef

\* Mutant of TogglePlay: the playing branch sets isPlaying to false without
\* calling audioRef.current.pause().
TogglePlayNoPause ==
  /\ draggedSong = NoSong
  /\ lastOp' = Op("togglePlay", 0, << >>)
  /\ UNCHANGED << draggedSong, now, wsState, obsBridgeRef, reconnectTimers, volume >>
  /\ gainNodeRef' = IF currentSong = NoSong THEN gainNodeRef ELSE setupAnalyzer
  /\ IF currentSong = NoSong
       THEN /\ Commit(songs, playlists, selectedPlaylistId, currentIndex, isPlaying,
                      audioPaused, pendingPlay, << >>)
            /\ sent' = << >>
       ELSE IF isPlaying
         THEN /\ Commit(songs, playlists, selectedPlaylistId, currentIndex, FALSE,
                        audioPaused, pendingPlay, << >>)
              /\ sent' = sendToOBS(PlayStateMsg(FALSE, FALSE))
         ELSE /\ Len(pendingPlay) < MaxPending
              /\ \E ok \in BOOLEAN :
                   Commit(songs, playlists, selectedPlaylistId, currentIndex, isPlaying,
                          IF ok THEN FALSE ELSE audioPaused,
                          Append(pendingPlay, ok),
                          << [cmd |-> "play", src |-> audioLoaded] >>)
              /\ sent' = << >>

\* Mutant of TogglePlay: the `!currentSong` test of the first line is missing.
TogglePlayNoGuard ==
  /\ draggedSong = NoSong
  /\ lastOp' = Op("togglePlay", 0, << >>)
  /\ UNCHANGED << draggedSong, now, wsState, obsBridgeRef, reconnectTimers, volume >>
  /\ gainNodeRef' = setupAnalyzer
  /\ IF isPlaying
       THEN /\ Commit(songs, playlists, selectedPlaylistId, currentIndex, FALSE,
                      TRUE,
                      IF audioPaused THEN pendingPlay
                      ELSE [k \in 1..Len(pendingPlay) |-> FALSE],
                      << [cmd |-> "pause", src |-> audioLoaded] >>)
            /\ sent' = sendToOBS(PlayStateMsg(FALSE, FALSE))
       ELSE /\ Len(pendingPlay) < MaxPending
            /\ \E ok \in BOOLEAN :
                 Commit(songs, playlists, selectedPlaylistId, currentIndex, isPlaying,
                        IF ok THEN FALSE ELSE audioPaused,
                        Append(pendingPlay, ok),
                        << [cmd |-> "play", src |-> audioLoaded] >>)
            /\ sent' = << >>

\* togglePlay up to its end or to `await audioRef.current.play()`.
TogglePlay ==
  /\ draggedSong = NoSong
  /\ lastOp' = Op("togglePlay", 0, << >>)
  /\ UNCHANGED << draggedSong, now, wsState, obsBridgeRef, reconnectTimers, volume >>
  /\ gainNodeRef' = IF currentSong = NoSong THEN gainNodeRef ELSE setupAnalyzer
  /\ IF currentSong = NoSong
       THEN /\ Commit(songs, playlists, selectedPlaylistId, currentIndex, isPlaying,
                      audioPaused, pendingPlay, << >>)
            /\ sent' = << >>
       ELSE IF isPlaying
         THEN \* pause() rejects the play promises still pending
              /\ Commit(songs, playlists, selectedPlaylistId, currentIndex, FALSE,
                        TRUE,
                        IF audioPaused THEN pendingPlay
                        ELSE [k \in 1..Len(pendingPlay) |-> FALSE],
                        << [cmd |-> "pause", src |-> audioLoaded] >>)
              /\ sent' = sendToOBS(PlayStateMsg(FALSE, FALSE))
         ELSE \* play() is accepted or rejected by the element
              /\ Len(pendingPlay) < MaxPending
              /\ \E ok \in BOOLEAN :
                   Commit(songs, playlists, selectedPlaylistId, currentIndex, isPlaying,
                          IF ok THEN FALSE ELSE audioPaused,
                          Append(pendingPlay, ok),
                          << [cmd |-> "play", src |-> audioLoaded] >>)
              /\ sent' = << >>

\* togglePlay after the await: the promise was fulfilled (Head(pendingPlay))
\* or rejected; isPlaying was false when the handler was called.
TogglePlayResume ==
  /\ pendingPlay # << >>
  /\ Commit(songs, playlists, selectedPlaylistId, currentIndex, ~FALSE,
            audioPaused, Tail(pendingPlay), << >>)
  /\ sent' = IF Head(pendingPlay) THEN sendToOBS(PlayStateMsg(TRUE, TRUE)) ELSE << >>
  /\ lastOp' = [Op("togglePlayResume", 0, << >>) EXCEPT
                  !.note = IF Head(pendingPlay) THEN "fulfilled" ELSE "rejected",
                  !.origin = IF lastOp.name = "togglePlay" THEN 0 ELSE 0 - 1]
  /\ Quiet

\* { currentTime: time }
SeekMsg ==
  [keys |-> {"currentTime"}, src |-> NoSrc, trackName |-> "", isPlaying |-> FALSE]

\* handleSeek: the seek bar moved.
HandleSeek ==
  /\ draggedSong = NoSong
  /\ Commit(songs, playlists, selectedPlaylistId, currentIndex, isPlaying,
            audioPaused, pendingPlay, << [cmd |-> "seek", src |-> audioLoaded] >>)
  /\ sent' = sendToOBS(SeekMsg)
  /\ lastOp' = Op("seek", 0, << >>)
  /\ Quiet

\* The volume slider's onChange, the user asking for position v.
SetVolume(v) ==
  /\ draggedSong = NoSong
  /\ RangeSanitize(v) # volume
  /\ volume' = RangeSanitize(v)
  /\ gainNodeRef' = IF gainNodeRef # NoGain THEN RangeSanitize(v) ELSE gainNodeRef
  /\ Commit(songs, playlists, selectedPlaylistId, currentIndex, isPlaying,
            audioPaused, pendingPlay, << >>)
  /\ sent' = << >>
  /\ lastOp' = Op("setVolume", v, << >>)
  /\ UNCHANGED << draggedSong, now, wsState, obsBridgeRef, reconnectTimers >>

(***************************************************************************)
(* Library and catalog handlers.                                           *)
(***************************************************************************)
\* handleFileInput / addSongs: setSongs((prev) => [...prev, ...newSongs])
AddSongs(newSongs) ==
  /\ draggedSong = NoSong
  /\ Len(songs) + Len(newSongs) <= MaxSongs
  /\ Commit(songs \o newSongs, playlists, selectedPlaylistId, currentIndex, isPlaying,
            audioPaused, pendingPlay, << >>)
  /\ sent' = << >>
  /\ lastOp' = Op("addSongs", 0, << >>)
  /\ Quiet

\* createPlaylist with newPlaylistName = input, at clock reading t, while the
\* catalog holds fewer than cap playlists.
CreatePlaylist(cap, input, t) ==
  /\ draggedSong = NoSong
  /\ t >= now
  /\ now' = t
  /\ Len(playlists) < cap
  /\ IF trim(input) = << >>
       THEN Commit(songs, playlists, selectedPlaylistId, currentIndex, isPlaying,
                   audioPaused, pendingPlay, << >>)
       ELSE LET newPlaylist == [id |-> t, name |-> trim(input), songs |-> << >>]
            IN Commit(songs, Append(playlists, newPlaylist), newPlaylist.id,
                      currentIndex, isPlaying, audioPaused, pendingPlay, << >>)
  /\ sent' = << >>
  /\ lastOp' = Op("createPlaylist", t, input)
  /\ UNCHANGED << draggedSong, wsState, obsBridgeRef, reconnectTimers, volume,
                  gainNodeRef >>

\* Mutant of FilterOutId: the test is inverted, p.id === id.
RECURSIVE FilterOnlyId(_, _)
FilterOnlyId(p, id) ==
  IF p = << >> THEN << >>
  ELSE IF Head(p).id # id THEN FilterOnlyId(Tail(p), id)
  ELSE << Head(p) >> \o FilterOnlyId(Tail(p), id)

\* prev.filter((p) => p.id !== id)
RECURSIVE FilterOutId(_, _)
FilterOutId(p, id) ==
  IF p = << >> THEN << >>
  ELSE IF Head(p).id = id THEN FilterOutId(Tail(p), id)
  ELSE << Head(p) >> \o FilterOutId(Tail(p), id)

\* The delete button of a playlist entry; lastOp.index is the id, lastOp.note
\* tells whether it was the selected one.
DeletePlaylist(id) ==
  /\ draggedSong = NoSong
  /\ \E i \in 1..Len(playlists) : playlists[i].id = id
  /\ IF selectedPlaylistId = id
       THEN Commit(songs, FilterOutId(playlists, id), NullId, 0, isPlaying,
                   audioPaused, pendingPlay, << >>)
       ELSE Commit(songs, FilterOutId(playlists, id), selectedPlaylistId, currentIndex,
                   isPlaying, audioPaused, pendingPlay, << >>)
  /\ sent' = << >>
  /\ lastOp' = [Op("deletePlaylist", id, << >>) EXCEPT
                  !.note = IF selectedPlaylistId = id THEN "active" ELSE "other"]
  /\ Quiet

\* A click on the Library entry of the sidebar.
SelectLibrary ==
  /\ draggedSong = NoSong
  /\ Commit(songs, playlists, NullId, 0, isPlaying, audioPaused, pendingPlay, << >>)
  /\ sent' = << >>
  /\ lastOp' = Op("selectLibrary", 0, << >>)
  /\ Quiet

\* A click on a playlist entry of the sidebar.
SelectPlaylist(id) ==
  /\ draggedSong = NoSong
  /\ \E i \in 1..Len(playlists) : playlists[i].id = id
  /\ Commit(songs, playlists, id, 0, isPlaying, audioPaused, pendingPlay, << >>)
  /\ sent' = << >>
  /\ lastOp' = Op("selectPlaylist", 0, << >>)
  /\ Quiet

\* handleSongDragStart: rows are draggable only while the library is shown.
SongDragStart(song) ==
  /\ draggedSong = NoSong
  /\ selectedPlaylistId = NullId
  /\ \E i \in 1..Len(displaySongs) : displaySongs[i] = song
  /\ draggedSong' = song
  /\ Commit(songs, playlists, selectedPlaylistId, currentIndex, isPlaying,
            audioPaused, pendingPlay, << >>)
  /\ sent' = << >>
  /\ lastOp' = Op("songDragStart", 0, << >>)
  /\ UNCHANGED << now, wsState, obsBridgeRef, reconnectTimers, volume, gainNodeRef >>

\* handleSongDragEnd: the drag ended without a drop on a playlist.
SongDragEnd ==
  /\ draggedSong # NoSong
  /\ draggedSong' = NoSong
  /\ Commit(songs, playlists, selectedPlaylistId, currentIndex, isPlaying,
            audioPaused, pendingPlay, << >>)
  /\ sent' = << >>
  /\ lastOp' = Op("songDragEnd", 0, << >>)
  /\ UNCHANGED << now, wsState, obsBridgeRef, reconnectTimers, volume, gainNodeRef >>

\* Mutant of AddToPlaylists: the `exists` test is missing.
AddToPlaylistsNoCheck(p, playlistId, song) ==
  [i \in 1..Len(p) |->
     IF p[i].id = playlistId THEN [p[i] EXCEPT !.songs = Append(@, song)] ELSE p[i]]

\* The map of handlePlaylistDrop (App.tsx 239-249).
AddToPlaylists(p, playlistId, song) ==
  [i \in 1..Len(p) |->
     IF p[i].id = playlistId
       THEN IF \E k \in 1..Len(p[i].songs) : p[i].songs[k].path = song.path
              THEN p[i]
              ELSE [p[i] EXCEPT !.songs = Append(@, song)]
       ELSE p[i]]

\* handlePlaylistDrop on the entry of playlist playlistId.
PlaylistDrop(playlistId) ==
  /\ draggedSong # NoSong
  /\ \E i \in 1..Len(playlists) : playlists[i].id = playlistId
  /\ draggedSong' = NoSong
  /\ Commit(songs, AddToPlaylists(playlists, playlistId, draggedSong),
            selectedPlaylistId, currentIndex, isPlaying, audioPaused, pendingPlay, << >>)
  /\ sent' = << >>
  /\ lastOp' = [Op("playlistDrop", playlistId, << >>) EXCEPT !.note =
                  IF AddToPlaylists(playlists, playlistId, draggedSong) = playlists
                    THEN "present" ELSE "appended"]
  /\ UNCHANGED << now, wsState, obsBridgeRef, reconnectTimers, volume, gainNodeRef >>

\* Mutant of RemoveFromPlaylists: the filter drops row 0 whatever songIndex is.
RemoveFromPlaylistsHead(p, playlistId, songIndex) ==
  [i \in 1..Len(p) |->
     IF p[i].id = playlistId
       THEN [p[i] EXCEPT !.songs = FilterIndex(@, 0)]
       ELSE p[i]]

\* The map of removeSongFromPlaylist (App.tsx 256-264).
RemoveFromPlaylists(p, playlistId, songIndex) ==
  [i \in 1..Len(p) |->
     IF p[i].id = playlistId
       THEN [p[i] EXCEPT !.songs = FilterIndex(@, songIndex)]
       ELSE p[i]]

\* Mutant of IndexAfterRemove: no reset when the last row is the current one.
IndexAfterRemoveNoReset(songIndex, ci, len) ==
  IF songIndex < ci THEN ci - 1 ELSE ci

\* Mutant of IndexAfterRemove: no shift when an earlier row is removed.
IndexAfterRemoveNoShift(songIndex, ci, len) ==
  IF songIndex = ci /\ ci >= len - 1 THEN 0 ELSE ci

\* Mutant of IndexAfterRemove: removing the current row advances to the next.
IndexAfterRemoveAdvance(songIndex, ci, len) ==
  IF songIndex < ci THEN ci - 1
  ELSE IF songIndex = ci THEN (IF ci >= len - 1 THEN 0 ELSE ci + 1)
  ELSE ci

\* The index adjustment of removeSongFromPlaylist (App.tsx 266-276).
IndexAfterRemove(songIndex, ci, len) ==
  IF songIndex < ci THEN ci - 1
  ELSE IF songIndex = ci /\ ci >= len - 1 THEN 0
  ELSE ci

\* Mutant of removeSongFromPlaylist: the `selectedPlaylistId === playlistId`
\* test is missing.
removeSongFromPlaylistNoTest(playlistId, songIndex) ==
  Commit(songs, RemoveFromPlaylists(playlists, playlistId, songIndex),
         selectedPlaylistId,
         IndexAfterRemove(songIndex, currentIndex, Len(displaySongs)),
         IF songIndex = currentIndex THEN FALSE ELSE isPlaying,
         audioPaused, pendingPlay, << >>)

removeSongFromPlaylist(playlistId, songIndex) ==
  IF selectedPlaylistId = playlistId
    THEN Commit(songs, RemoveFromPlaylists(playlists, playlistId, songIndex),
                selectedPlaylistId,
                IndexAfterRemove(songIndex, currentIndex, Len(displaySongs)),
                IF songIndex = currentIndex THEN FALSE ELSE isPlaying,
                audioPaused, pendingPlay, << >>)
    ELSE Commit(songs, RemoveFromPlaylists(playlists, playlistId, songIndex),
                selectedPlaylistId, currentIndex, isPlaying,
                audioPaused, pendingPlay, << >>)

\* The remove button of row songIndex; rows carry it while a playlist is selected.
RemoveSong(songIndex) ==
  /\ draggedSong = NoSong
  /\ selectedPlaylistId # NullId
  /\ songIndex \in 0..(Len(displaySongs) - 1)
  /\ removeSongFromPlaylist(selectedPlaylistId, songIndex)
  /\ sent' = << >>
  /\ lastOp' = [Op("removeSong", songIndex, << >>) EXCEPT
                  !.note = IF songIndex < currentIndex THEN "before"
                           ELSE IF songIndex = currentIndex THEN "current"
                           ELSE "after"]
  /\ Quiet

(***************************************************************************)
(* Remote commands (ws.onmessage, App.tsx 73-90).                          *)
(***************************************************************************)
\* playlists.find((p) => p.name.toLowerCase() === name.toLowerCase())
FindIndexByName(p, name) ==
  IF \E i \in 1..Len(p) : toLowerCase(p[i].name) = toLowerCase(name)
    THEN CHOOSE i \in 1..Len(p) :
           /\ toLowerCase(p[i].name) = toLowerCase(name)
           /\ \A j \in 1..(i - 1) : toLowerCase(p[j].name) # toLowerCase(name)
    ELSE 0

\* Mutant of switchToPlaylist: the index is reset before the lookup.
switchToPlaylistEagerReset(pl, name) ==
  LET found == FindIndexByName(pl, name)
  IN IF found # 0
       THEN /\ Commit(songs, playlists, pl[found].id, 0, TRUE,
                      audioPaused, pendingPlay, << >>)
            /\ sent' = IF pl[found].songs # << >>
                         THEN sendToOBS(TrackChangeMsg(pl[found].songs[1]))
                         ELSE << >>
       ELSE /\ Commit(songs, playlists, selectedPlaylistId, 0, isPlaying,
                      audioPaused, pendingPlay, << >>)
            /\ sent' = << >>

\* switchToPlaylist as a closure over pl = playlists.
switchToPlaylist(pl, name) ==
  LET found == FindIndexByName(pl, name)
  IN IF found # 0
       THEN /\ Commit(songs, playlists, pl[found].id, 0, TRUE,
                      audioPaused, pendingPlay, << >>)
            /\ sent' = IF pl[found].songs # << >>
                         THEN sendToOBS(TrackChangeMsg(pl[found].songs[1]))
                         ELSE << >>
       ELSE /\ Commit(songs, playlists, selectedPlaylistId, currentIndex, isPlaying,
                      audioPaused, pendingPlay, << >>)
            /\ sent' = << >>

\* switchToLibrary as a closure over lib = songs.
switchToLibrary(lib) ==
  /\ Commit(songs, playlists, NullId, 0, TRUE, audioPaused, pendingPlay, << >>)
  /\ sent' = IF lib # << >> THEN sendToOBS(TrackChangeMsg(lib[1])) ELSE << >>

\* Mutant of Dispatch: a frame that names no known command is taken for a skip.
DispatchDefaultSkip(data, pl) ==
  IF data.json \in {"malformed", "null"} THEN "caught"
  ELSE IF data.command = "playlist" /\ Truthy(data)
    THEN IF data.nameType # "string" /\ pl # << >> THEN "caught" ELSE "playlist"
  ELSE IF data.command = "library" THEN "library"
  ELSE "skip"

\* The branch the body of ws.onmessage takes on data, pl being the playlists
\* the handler behind playlistHandlerRef captured.  "caught" is the catch block:
\* JSON.parse threw on text that is not JSON, data.command threw on null, or
\* name.toLowerCase() threw on a name that is no string (find calls it for the
\* first playlist of pl, if there is one).
Dispatch(data, pl) ==
  IF data.json \in {"malformed", "null"} THEN "caught"
  ELSE IF data.command = "skip" THEN "skip"
  ELSE IF data.command = "playlist" /\ Truthy(data)
    THEN IF data.nameType # "string" /\ pl # << >> THEN "caught" ELSE "playlist"
  ELSE IF data.command = "library" THEN "library"
  ELSE "none"

\* ws.onmessage: lastOp.note is "caught" when the catch block ran.
WsMessage(data) ==
  /\ wsState = "open"
  /\ Quiet
  /\ LET branch == Dispatch(data, playlistHandlerRef)
     IN IF branch = "skip"
          THEN /\ playNext(skipHandlerRef.displaySongs, skipHandlerRef.currentIndex,
                           audioPaused)
               /\ lastOp' = [SkipOp("remoteSkip") EXCEPT !.frame = data]
        ELSE IF branch = "playlist"
          THEN /\ switchToPlaylist(playlistHandlerRef, data.name)
               /\ lastOp' = [Op("remotePlaylist", 0, data.name) EXCEPT !.frame = data]
        ELSE IF branch = "library"
          THEN /\ switchToLibrary(libraryHandlerRef)
               /\ lastOp' = [Op("remoteLibrary", 0, << >>) EXCEPT !.frame = data]
        ELSE /\ Commit(songs, playlists, selectedPlaylistId, currentIndex, isPlaying,
                       audioPaused, pendingPlay, << >>)
             /\ sent' = << >>
             /\ lastOp' = [Op("remoteIgnored", 0, << >>) EXCEPT
                             !.note = IF branch = "caught" THEN "caught" ELSE "",
                             !.frame = data]

(***************************************************************************)
(* The bridge socket (connectToOBS, App.tsx 62-107).                       *)
(***************************************************************************)
Idle ==
  /\ Commit(songs, playlists, selectedPlaylistId, currentIndex, isPlaying,
            audioPaused, pendingPlay, << >>)
  /\ sent' = << >>
  /\ UNCHANGED << draggedSong, now, volume, gainNodeRef >>

\* ws.onopen
WsOpen ==
  /\ wsState = "connecting"
  /\ wsState' = "open"
  /\ obsBridgeRef' = "ws"
  /\ UNCHANGED reconnectTimers
  /\ lastOp' = Op("wsOpen", 0, << >>)
  /\ Idle

\* Mutant of onclose: the timer is armed twice.
oncloseTwice == reconnectTimers \o << ReconnectDelay, ReconnectDelay >>

\* Mutant of onclose: no timer is armed.
oncloseNoTimer == reconnectTimers

\* The timers after ws.onclose: setTimeout(connectToOBS, 3000).
onclose == Append(reconnectTimers, ReconnectDelay)

\* ws.onclose: clears the ref and arms the reconnect timer; lastOp.note is
\* "retry" when the socket that closed was opened by the timer just before.
WsClose ==
  /\ wsState \in {"connecting", "open"}
  /\ wsState' = "closed"
  /\ obsBridgeRef' = "null"
  /\ reconnectTimers' = onclose
  /\ lastOp' = [Op("wsClose", 0, << >>) EXCEPT
                  !.note = IF lastOp.name = "reconnect" THEN "retry" ELSE ""]
  /\ Idle

\* setTimeout(connectToOBS, 3000) fires: a new socket.
Reconnect ==
  /\ reconnectTimers # << >>
  /\ reconnectTimers' = Tail(reconnectTimers)
  /\ wsState' = "connecting"
  /\ obsBridgeRef' = obsBridgeRef
  /\ lastOp' = Op("reconnect", 0, << >>)
  /\ Idle

Next ==
  \/ PlayNext
  \/ PlayPrev
  \/ Ended
  \/ \E index \in 0..(MaxSongs - 1) : PlaySong(index)
  \/ TogglePlay
  \/ TogglePlayResume
  \/ HandleSeek
  \/ \E newSongs \in ImportBatches : AddSongs(newSongs)
  \/ \E input \in NameInputs, t \in 1..MaxClock : CreatePlaylist(MaxPlaylists, input, t)
  \/ \E id \in 1..MaxClock : DeletePlaylist(id)
  \/ SelectLibrary
  \/ \E id \in 1..MaxClock : SelectPlaylist(id)
  \/ \E song \in SongPool : SongDragStart(song)
  \/ SongDragEnd
  \/ \E id \in 1..MaxClock : PlaylistDrop(id)
  \/ \E songIndex \in 0..(MaxSongs - 1) : RemoveSong(songIndex)
  \/ \E data \in InboundMessages : WsMessage(data)
  \/ WsOpen
  \/ WsClose
  \/ Reconnect

Spec == Init /\ [][Next]_vars

(***************************************************************************)
(* The same handlers with a catalog of up to MaxCatalog playlists, in an   *)
(* environment where the socket, once open, stays open and playback is     *)
(* started by selection only.                                              *)
(***************************************************************************)
NextCatalog ==
  \/ \E index \in 0..(MaxSongs - 1) : PlaySong(index)
  \/ \E newSongs \in ImportBatches : AddSongs(newSongs)
  \/ \E input \in NameInputs, t \in 1..MaxClock : CreatePlaylist(MaxCatalog, input, t)
  \/ \E id \in 1..MaxClock : DeletePlaylist(id)
  \/ SelectLibrary
  \/ \E id \in 1..MaxClock : SelectPlaylist(id)
  \/ \E song \in SongPool : SongDragStart(song)
  \/ SongDragEnd
  \/ \E id \in 1..MaxClock : PlaylistDrop(id)
  \/ \E songIndex \in 0..(MaxSongs - 1) : RemoveSong(songIndex)
  \/ \E data \in InboundMessages : WsMessage(data)
  \/ WsOpen

SpecCatalog == Init /\ [][NextCatalog]_vars

(***************************************************************************)
(* The bridge channel with frames of every shape, in an environment where  *)
(* tracks are imported and selected and one playlist may be created.       *)
(***************************************************************************)
NextBridge ==
  \/ \E index \in 0..(MaxSongs - 1) : PlaySong(index)
  \/ \E newSongs \in ImportBatches : AddSongs(newSongs)
  \/ \E input \in NameInputs, t \in 1..MaxClock : CreatePlaylist(MaxPlaylists, input, t)
  \/ \E data \in InboundMessages \cup InvalidFrames : WsMessage(data)
  \/ WsOpen
  \/ WsClose
  \/ Reconnect

SpecBridge == Init /\ [][NextBridge]_vars

(***************************************************************************)
(* Frames that arrive in a burst.  A state update made outside a UI event   *)
(* is rendered, and the effects that refresh skipHandlerRef are run, in a   *)
(* later task of the event loop; a frame already queued is handled before   *)
(* that task, by the playNext that skipHandlerRef still holds: the closure  *)
(* of the render before the first frame.  Of the windows this opens the     *)
(* model has one: a skip frame right after a skip frame.                    *)
(***************************************************************************)
\* ws.onmessage for a skip frame that follows a skip frame before the effect of
\* App.tsx 363-365 has run: lastOp.index is the currentIndex the closure holds.
RemoteSkipStale ==
  /\ wsState = "open"
  /\ lastOp.name = "remoteSkip"
  /\ playNext(skipHandlerRef.displaySongs, lastOp.index, audioPaused)
  /\ lastOp' = [SkipOp("remoteSkip") EXCEPT
                  !.index = lastOp.index,
                  !.note = "stale",
                  !.frame = Frame("object", "skip", "absent", << >>)]
  /\ Quiet

NextBurst ==
  \/ PlayNext
  \/ Ended
  \/ \E index \in 0..(MaxSongs - 1) : PlaySong(index)
  \/ \E newSongs \in ImportBatches : AddSongs(newSongs)
  \/ \E data \in InboundMessages : WsMessage(data)
  \/ RemoteSkipStale
  \/ WsOpen

SpecBurst == Init /\ [][NextBurst]_vars

(***************************************************************************)
(* The volume slider next to the transport handlers.                       *)
(***************************************************************************)
NextVolume ==
  \/ PlayNext
  \/ \E index \in 0..(MaxSongs - 1) : PlaySong(index)
  \/ TogglePlay
  \/ TogglePlayResume
  \/ \E newSongs \in ImportBatches : AddSongs(newSongs)
  \/ \E v \in VolumeInputs : SetVolume(v)

SpecVolume == Init /\ [][NextVolume]_vars

(***************************************************************************)
(* Claims.                                                                 *)
(***************************************************************************)
InBounds == currentIndex \in 0..(Len(displaySongs) - 1)

\* No two playlists of the catalog share an id.
UniqueIds ==
  \A i, j \in 1..Len(playlists) : playlists[i].id = playlists[j].id => i = j

\* C1: in every reachable state, if the active collection is non-empty then
\* 0 <= currentIndex < length of the active collection's track sequence.
C1_IndexInBounds == Len(displaySongs) > 0 => InBounds

\* The last handler commanded the element to play the resource at path.
PlayIssuedFor(path) ==
  \E k \in 1..Len(engineCmds) : engineCmds[k] = [cmd |-> "play", src |-> path]

\* C2: for a non-empty collection and an in-bounds starting index, next() then
\* previous(), and previous() then next(), with nothing in between, return
\* currentIndex to its starting value.
C2_NextPrevInverse ==
  ( /\ lastOp.name \in SkipOps
    /\ lastOp.note \in SkipOps
    /\ (lastOp.name = "playPrev") # (lastOp.note = "playPrev")
    /\ Len(displaySongs) > 0
    /\ lastOp.origin \in 0..(Len(displaySongs) - 1) )
  => currentIndex = lastOp.origin

\* Witness of C2: previous() right after a next() that wrapped from the last row
\* of a three-track collection.
C2_Witness ==
  /\ lastOp.name = "playPrev"
  /\ lastOp.note = "playNext"
  /\ Len(displaySongs) = 3
  /\ lastOp.origin = 2
  /\ lastOp.index = 0
  /\ currentIndex = 2

\* C3: next() and previous() on an empty active collection change nothing of the
\* session, command nothing of the audio element and send nothing.
C3_SkipOnEmptyIsNoOp ==
  [][ (lastOp'.name \in SkipOps /\ Len(displaySongs) = 0)
      => /\ UNCHANGED << songs, playlists, selectedPlaylistId, currentIndex,
                         isPlaying, audioLoaded, pendingPlay >>
         /\ engineCmds' = << >>
         /\ sent' = << >> ]_vars

\* Witness of C3: previous() ran on an empty collection while the socket was open.
C3_Witness ==
  /\ lastOp.name = "playPrev"
  /\ Len(displaySongs) = 0
  /\ wsState = "open"
  /\ obsBridgeRef = "ws"

\* C4: after next() or previous() on a non-empty collection isPlaying is true and
\* the element has been commanded to play the track at the new index.
C4_SkipAlwaysPlays ==
  (lastOp.name \in SkipOps /\ Len(displaySongs) > 0)
  => (isPlaying /\ PlayIssuedFor(currentSong.path))

\* C5: a togglePlay invoked while paused whose play() is rejected ends with
\* isPlaying false.
C5_RejectedPlayStaysPaused ==
  ( /\ lastOp.name = "togglePlayResume"
    /\ lastOp.note = "rejected"
    /\ lastOp.origin = 0 )
  => ~isPlaying

\* C6: removing the row at the current index sets isPlaying to false and leaves
\* currentIndex within the new bounds, or at 0 if the collection becomes empty.
C6_RemoveCurrent ==
  [][ (lastOp'.name = "removeSong" /\ lastOp'.index = currentIndex)
      => /\ ~isPlaying'
         /\ Len(displaySongs') = Len(displaySongs) - 1
         /\ IF Len(displaySongs') = 0
              THEN currentIndex' = 0
              ELSE currentIndex' \in 0..(Len(displaySongs') - 1) ]_vars

\* Witness of C6: the current row, the last of two, was removed.
C6_Witness ==
  /\ lastOp.name = "removeSong"
  /\ lastOp.note = "current"
  /\ lastOp.index = 1
  /\ Len(displaySongs) = 1
  /\ currentIndex = 0
  /\ ~isPlaying

\* C7: removing a row before the current one decrements currentIndex by one,
\* removing a row after it leaves currentIndex alone; isPlaying is unchanged.
C7_RemoveOther ==
  [][ /\ (lastOp'.name = "removeSong" /\ lastOp'.index < currentIndex)
         => (currentIndex' = currentIndex - 1 /\ isPlaying' = isPlaying)
      /\ (lastOp'.name = "removeSong" /\ lastOp'.index > currentIndex)
         => (currentIndex' = currentIndex /\ isPlaying' = isPlaying) ]_vars

\* Witness of C7: the row before the current one was removed while playing.
C7_Witness ==
  /\ lastOp.name = "removeSong"
  /\ lastOp.note = "before"
  /\ lastOp.index = 0
  /\ currentIndex = 0
  /\ Len(displaySongs) = 1
  /\ isPlaying

\* C8: a remote playlist command whose name matches no playlist leaves the
\* session unchanged, commands nothing of the audio element and sends nothing.
C8_UnknownPlaylistIgnored ==
  [][ ( /\ lastOp'.name = "remotePlaylist"
        /\ \A i \in 1..Len(playlists) :
             toLowerCase(playlists[i].name) # toLowerCase(lastOp'.text) )
      => /\ UNCHANGED << songs, playlists, selectedPlaylistId, currentIndex,
                         isPlaying, audioLoaded, audioPaused, pendingPlay >>
         /\ engineCmds' = << >>
         /\ sent' = << >> ]_vars

\* Witness of C8: an unknown name arrived on the open socket while a playlist
\* existed and the second track of the collection was playing.
C8_Witness ==
  /\ lastOp.name = "remotePlaylist"
  /\ lastOp.text = << "x" >>
  /\ playlists # << >>
  /\ wsState = "open"
  /\ currentSong # NoSong
  /\ currentIndex = 1
  /\ isPlaying

\* The playlist a remote playlist command named, 0 if none.
Named == FindIndexByName(playlists, lastOp.text)

\* C9: a remote playlist command whose name matches a playlist up to letter case
\* makes that playlist the active collection; when it is empty there is no
\* current track and nothing is commanded of the audio element.
C9_CaseInsensitiveSwitch ==
  (lastOp.name = "remotePlaylist" /\ Named # 0)
  => /\ selectedPlaylistId = playlists[Named].id
     /\ displaySongs = playlists[Named].songs
     /\ playlists[Named].songs = << >> => (currentSong = NoSong /\ engineCmds = << >>)

\* C10: a remote switch to a non-empty collection leaves currentIndex = 0 and
\* isPlaying = true with the first track commanded to play and broadcast.
C10_SwitchPlaysFirstTrack ==
  ( /\ \/ lastOp.name = "remoteLibrary"
       \/ lastOp.name = "remotePlaylist" /\ Named # 0
    /\ Len(displaySongs) > 0 )
  => /\ currentIndex = 0
     /\ isPlaying
     /\ PlayIssuedFor(displaySongs[1].path)
     /\ sent = sendToOBS(TrackChangeMsg(displaySongs[1]))

\* C11: after selectTrack with an in-bounds index, currentIndex is that index,
\* isPlaying is true and the element has been commanded to play the selected
\* track, also when the index was already current and playback was paused.
C11_SelectTrackPlays ==
  lastOp.name = "playSong"
  => /\ currentIndex = lastOp.index
     /\ isPlaying
     /\ PlayIssuedFor(currentSong.path)

\* The handlers that change the track.
TrackOps ==
  {"playSong", "playNext", "playPrev", "ended", "remoteSkip", "remotePlaylist",
   "remoteLibrary"}

\* C12: every outbound frame carries the key set of the event that produced it:
\* a track change src, trackName, isPlaying and currentTime; a play/pause toggle,
\* in either direction, isPlaying only; a seek currentTime only.
C12_MessageKeys ==
  \A k \in 1..Len(sent) :
    /\ lastOp.name \in TrackOps
       => sent[k].keys = {"src", "trackName", "isPlaying", "currentTime"}
    /\ lastOp.name \in {"togglePlay", "togglePlayResume"}
       => sent[k].keys = {"isPlaying"}
    /\ lastOp.name = "seek" => sent[k].keys = {"currentTime"}

\* C13: a frame is transmitted only by a handler that runs while the channel is
\* connected, and at most one; a handler that runs while it is not sends
\* nothing, and the socket's own events (open, close, retry) transmit nothing,
\* so nothing dropped is sent after a reconnect.
C13_SentOnlyWhileConnected ==
  [][ /\ sent' # << >>
         => /\ wsState = "open"
            /\ obsBridgeRef = "ws"
            /\ Len(sent') = 1
      /\ lastOp'.name \in {"wsOpen", "wsClose", "reconnect"} => sent' = << >> ]_vars

\* Witness of C13: a track was selected while the channel was closed and waiting
\* for its retry, and nothing was sent.
C13_Witness ==
  /\ lastOp.name = "playSong"
  /\ wsState = "closed"
  /\ reconnectTimers # << >>
  /\ isPlaying
  /\ sent = << >>

\* C14: every close of the connection arms exactly one retry, at the fixed
\* delay, and the retry makes exactly one new connection attempt; a closed
\* channel always has its one retry armed, however many closes came before.
C14_OneRetryPerClose ==
  [][ /\ lastOp'.name = "wsClose" => reconnectTimers' = << ReconnectDelay >>
      /\ lastOp'.name = "reconnect"
         => (reconnectTimers' = << >> /\ wsState' = "connecting")
      /\ wsState' = "closed" => reconnectTimers' = << ReconnectDelay >>
      /\ wsState' # "closed" => reconnectTimers' = << >> ]_vars

\* Witness of C14: an attempt that was itself a retry has failed, and the next
\* retry is armed.
C14_Witness ==
  /\ lastOp.name = "wsClose"
  /\ lastOp.note = "retry"
  /\ wsState = "closed"
  /\ reconnectTimers = << ReconnectDelay >>
  /\ obsBridgeRef = "null"

\* The frames of a known shape: {command: "skip"}, {command: "playlist", name:
\* non-empty string} and {command: "library"}.
ValidShape(f) ==
  /\ f.json = "object"
  /\ \/ f.command \in {"skip", "library"}
     \/ f.command = "playlist" /\ f.nameType = "string" /\ f.name # << >>

\* C15: an inbound frame of any other shape is discarded: the session and the
\* audio element are unchanged, nothing is sent, the connection stays as it is
\* and no retry is armed.
C15_InvalidFrameDiscarded ==
  [][ (lastOp'.frame # NoFrame /\ ~ValidShape(lastOp'.frame))
      => /\ UNCHANGED << songs, playlists, selectedPlaylistId, currentIndex,
                         isPlaying, audioLoaded, audioPaused, pendingPlay,
                         wsState, obsBridgeRef, reconnectTimers >>
         /\ engineCmds' = << >>
         /\ sent' = << >>
         /\ wsState' = "open" ]_vars

\* Witness of C15: a playlist command whose name is a number arrived while a
\* playlist existed and a track was playing; the catch block ran.
C15_Witness ==
  /\ lastOp.frame = Frame("object", "playlist", "number", << >>)
  /\ lastOp.note = "caught"
  /\ playlists # << >>
  /\ isPlaying
  /\ currentIndex = 1
  /\ wsState = "open"

\* C16: a remote skip, the next button and the ended signal each make the
\* transition that next() defines on the session's current collection and
\* currentIndex: the index advances by one with wrap-around, isPlaying is true,
\* the new track is broadcast and, the index having changed, commanded to play.
C16_SkipPathsConverge ==
  [][ (lastOp'.name \in {"playNext", "ended", "remoteSkip"} /\ Len(displaySongs) > 0)
      => LET nextIndex == NextIndex(currentIndex, Len(displaySongs))
             nextSong == SongAt(displaySongs, nextIndex)
         IN /\ currentIndex' = nextIndex
            /\ isPlaying'
            /\ UNCHANGED << songs, playlists, selectedPlaylistId >>
            /\ sent' = sendToOBS(TrackChangeMsg(nextSong))
            /\ nextIndex # currentIndex
               => \E k \in 1..Len(engineCmds') :
                    engineCmds'[k] = [cmd |-> "play", src |-> nextSong.path] ]_vars

LocalGain == IF gainNodeRef = NoGain THEN FullVolume ELSE gainNodeRef

\* C18: while the element plays, the gain applied to the local output equals
\* the stored volume (the element's own volume staying at full), also when
\* playback was started by selectTrack or next with no togglePlay before.
C18_LocalGainIsVolume == ~audioPaused => LocalGain = volume

\* The handlers that may change the catalog.
CatalogOps == {"createPlaylist", "deletePlaylist", "playlistDrop", "removeSong"}

\* C19: every operation that changes the catalog is followed by a savePlaylists
\* call carrying the catalog as it is after the change, also a delete that
\* leaves no playlist.
C19_EveryMutationSaved ==
  [][ (lastOp'.name \in CatalogOps /\ playlists' # playlists)
      => saved' = << playlists' >> ]_vars

\* C20: delete(id) leaves no playlist of that id in the catalog and keeps every
\* other one; if id was the selected playlist, the library becomes the active
\* collection and currentIndex 0; if not, the selection, currentIndex and
\* isPlaying are unchanged.
C20_DeletePlaylist ==
  [][ lastOp'.name = "deletePlaylist"
      => LET id == lastOp'.index
         IN /\ \A i \in 1..Len(playlists') : playlists'[i].id # id
            /\ Len(playlists') < Len(playlists)
            /\ \A i \in 1..Len(playlists) :
                 playlists[i].id # id
                 => \E j \in 1..Len(playlists') : playlists'[j] = playlists[i]
            /\ selectedPlaylistId = id
               => (selectedPlaylistId' = NullId /\ currentIndex' = 0
                   /\ displaySongs' = songs')
            /\ selectedPlaylistId # id
               => UNCHANGED << selectedPlaylistId, currentIndex, isPlaying >> ]_vars

\* Witness of C20: a playlist other than the selected one was deleted while the
\* second track of the selected one was playing.
C20_Witness ==
  /\ lastOp.name = "deletePlaylist"
  /\ lastOp.note = "other"
  /\ selectedPlaylistId # NullId
  /\ Len(playlists) = 1
  /\ Len(displaySongs) = 2
  /\ displaySongs = playlists[1].songs
  /\ currentIndex = 1
  /\ isPlaying

(***************************************************************************)
(* The visualizer. App.tsx starts with visualizerEnabled = false and never *)
(* sets it, so its loop never starts; the variants without the switch      *)
(* (part_003 131-146) run the same effect as if it were true.              *)
(***************************************************************************)
\* One requestAnimationFrame callback of a running loop: animate samples the
\* analyser, stores the bars and re-arms itself, because the isPlaying and
\* visualizerEnabled it tests are the constants its closure captured when the
\* effect ran (both true), not the current state.
AnimateFrame ==
  /\ animateLoops > 0
  /\ Commit(songs, playlists, selectedPlaylistId, currentIndex, isPlaying,
            audioPaused, pendingPlay, << >>)
  /\ sent' = << >>
  /\ lastOp' = Op("animate", 0, << >>)
  /\ Quiet

NextVisualizer ==
  \/ PlayNext
  \/ \E index \in 0..(MaxSongs - 1) : PlaySong(index)
  \/ TogglePlay
  \/ TogglePlayResume
  \/ \E newSongs \in ImportBatches : AddSongs(newSongs)
  \/ AnimateFrame

SpecVisualizer == Mount(TRUE, FALSE) /\ [][NextVisualizer]_vars

(***************************************************************************)
(* C22: the visualizer samples the analyser only while isPlaying and       *)
(* visualizerEnabled are both true: a sample is never taken in a state     *)
(* where either of them is false.                                          *)
(***************************************************************************)
C22_SampleOnlyWhilePlaying ==
  lastOp.name = "animate" => isPlaying /\ visualizerEnabled

(***************************************************************************)
(* C21: adding a track to a playlist is idempotent. When a track is        *)
(* dropped on a playlist entry, every playlist with that id that already   *)
(* holds a track with the same path keeps its sequence, every other one    *)
(* gets the track appended at the end, all other playlists are unchanged,  *)
(* and applying the same addition to the result changes nothing.           *)
(***************************************************************************)
HasPath(list, path) == \E k \in 1..Len(list) : list[k].path = path

C21_AddTrackIdempotent ==
  [][ lastOp'.name = "playlistDrop"
      => /\ Len(playlists') = Len(playlists)
         /\ \A i \in 1..Len(playlists) :
              IF playlists[i].id # lastOp'.index
                THEN playlists'[i] = playlists[i]
                ELSE /\ playlists'[i].id = playlists[i].id
                     /\ playlists'[i].name = playlists[i].name
                     /\ playlists'[i].songs =
                          IF HasPath(playlists[i].songs, draggedSong.path)
                            THEN playlists[i].songs
                            ELSE Append(playlists[i].songs, draggedSong)
         /\ AddToPlaylists(playlists', lastOp'.index, draggedSong) = playlists' ]_vars

\* A track was dropped on a playlist that already holds it, next to another
\* track, and the playlist kept its two tracks.
C21_Witness ==
  /\ lastOp.name = "playlistDrop"
  /\ lastOp.note = "present"
  /\ \E i \in 1..Len(playlists) :
       playlists[i].id = lastOp.index /\ Len(playlists[i].songs) = 2

(***************************************************************************)
(* C23: the isPlaying value togglePlay writes is the negation of the       *)
(* isPlaying value immediately before the write, whether the write is made *)
(* at once (the pause branch) or after the awaited play() has settled,     *)
(* with other handlers dispatched in between.                              *)
(***************************************************************************)
C23_ToggleNegatesCurrent ==
  [][ ( \/ lastOp'.name = "togglePlayResume"
        \/ lastOp'.name = "togglePlay" /\ currentSong # NoSong /\ isPlaying )
      => isPlaying' = ~isPlaying ]_vars

(***************************************************************************)
(* An element that rejects the play() of the play effect (the file behind  *)
(* a saved path is gone, or playback is not allowed).                      *)
(***************************************************************************)
NextBlocked ==
  \/ PlayNext
  \/ PlayPrev
  \/ \E index \in 0..(MaxSongs - 1) : PlaySong(index)
  \/ \E newSongs \in ImportBatches : AddSongs(newSongs)
  \/ \E data \in InboundMessages : WsMessage(data)
  \/ WsOpen

SpecBlocked == Mount(FALSE, TRUE) /\ [][NextBlocked]_vars

(***************************************************************************)
(* C24: when the element rejects a play command issued as a consequence of *)
(* selecting a track, skipping or switching the collection, isPlaying is   *)
(* false afterwards and the rejection is handled: no promise is left       *)
(* rejected without a handler.                                             *)
(***************************************************************************)
C24_RejectedPlayHandled ==
  ( /\ lastOp.name \in TrackOps
    /\ playBlocked
    /\ \E k \in 1..Len(engineCmds) : engineCmds[k].cmd = "play" )
  => (~isPlaying /\ unhandledRejections = << >>)

(***************************************************************************)
(* C25: togglePlay called with a current track while isPlaying is true     *)
(* commands the element to pause and sets isPlaying to false; called while *)
(* paused, once its play() has succeeded it sets isPlaying to true. Every  *)
(* step of togglePlay leaves the library, the catalog, the selection and   *)
(* currentIndex unchanged.                                                 *)
(***************************************************************************)
C25_TogglePlay ==
  [][ /\ (lastOp'.name = "togglePlay" /\ currentSong # NoSong /\ isPlaying)
         => /\ ~isPlaying'
            /\ engineCmds' = << [cmd |-> "pause", src |-> audioLoaded] >>
            /\ audioPaused'
      /\ (lastOp'.name = "togglePlayResume" /\ lastOp'.note = "fulfilled")
         => isPlaying'
      /\ lastOp'.name \in {"togglePlay", "togglePlayResume"}
         => UNCHANGED << songs, playlists, selectedPlaylistId, currentIndex >> ]_vars

\* Row 1 was playing and togglePlay has paused it.
C25_Witness ==
  /\ lastOp.name = "togglePlay"
  /\ currentIndex = 1
  /\ currentSong = Song2
  /\ ~isPlaying
  /\ audioPaused
  /\ audioLoaded = Song2.path
  /\ \E k \in 1..Len(engineCmds) : engineCmds[k].cmd = "pause"

(***************************************************************************)
(* C26: togglePlay with no current track is a no-op: isPlaying and the     *)
(* rest of the session state are unchanged, the element receives no        *)
(* command and nothing is sent to the bridge.                              *)
(***************************************************************************)
C26_ToggleWithoutTrack ==
  [][ (lastOp'.name = "togglePlay" /\ currentSong = NoSong)
      => /\ UNCHANGED << songs, playlists, selectedPlaylistId, currentIndex,
                         isPlaying, audioLoaded, audioPaused, pendingPlay,
                         gainNodeRef >>
         /\ engineCmds' = << >>
         /\ sent' = << >> ]_vars

\* togglePlay ran on an empty active collection with the channel open while
\* isPlaying was true, and isPlaying is still true.
C26_Witness ==
  /\ lastOp.name = "togglePlay"
  /\ currentSong = NoSong
  /\ displaySongs = << >>
  /\ wsState = "open"
  /\ isPlaying

(***************************************************************************)
(* playSong as a function of its argument: App.tsx 355-360 takes any       *)
(* number. The rows of the list pass the index of a rendered row           *)
(* (PlaySong); here the index may also lie outside the active collection,  *)
(* as it does when the collection changed after the row was rendered.      *)
(***************************************************************************)
PlaySongAt(index) ==
  /\ draggedSong = NoSong
  /\ Commit(songs, playlists, selectedPlaylistId, index, TRUE,
            audioPaused, pendingPlay, << >>)
  /\ sent' = sendToOBS(TrackChangeMsg(SongAt(displaySongs, index)))
  /\ lastOp' = [Op("playSong", index, << >>) EXCEPT
                  !.note = IF index \in 0..(Len(displaySongs) - 1)
                             THEN "" ELSE "outOfRange"]
  /\ Quiet

NextSelect ==
  \/ PlayNext
  \/ \E index \in 0..MaxSongs : PlaySongAt(index)
  \/ TogglePlay
  \/ TogglePlayResume
  \/ \E newSongs \in ImportBatches : AddSongs(newSongs)
  \/ WsOpen

SpecSelect == Init /\ [][NextSelect]_vars

C28_RemoveCurrentSlides ==
  [][ (lastOp'.name = "removeSong" /\ lastOp'.index = currentIndex)
      => /\ IF Len(displaySongs) = 1 \/ currentIndex = Len(displaySongs) - 1
              THEN currentIndex' = 0
              ELSE /\ currentIndex' = currentIndex
                   /\ currentSong' = SongAt(displaySongs, currentIndex + 1)
         /\ \A k \in 1..Len(engineCmds') : engineCmds'[k].cmd # "play" ]_vars

\* The first of two rows was current and playing and was removed: the row that
\* followed it is now current, loaded and paused.
C28_Witness ==
  /\ lastOp.name = "removeSong"
  /\ lastOp.note = "current"
  /\ lastOp.index = 0
  /\ currentIndex = 0
  /\ displaySongs = << Song2 >>
  /\ audioLoaded = Song2.path
  /\ audioPaused
  /\ engineCmds = << [cmd |-> "load", src |-> Song2.path] >>

(***************************************************************************)
(* The channel with its failures. A socket that fails reports an error and *)
(* is then closed by the browser in the same task: ws.onerror only logs    *)
(* (App.tsx 98-100) and ws.onclose follows. A constructor that throws is   *)
(* caught by connectToOBS, which arms the timer again (App.tsx 101-104).   *)
(***************************************************************************)
WsError ==
  /\ wsState \in {"connecting", "open"}
  /\ wsState' = "closed"
  /\ obsBridgeRef' = "null"
  /\ reconnectTimers' = onclose
  /\ lastOp' = Op("wsError", 0, << >>)
  /\ Idle

\* setTimeout(connectToOBS, 3000) fires and new WebSocket(...) throws.
ConnectThrows ==
  /\ reconnectTimers # << >>
  /\ reconnectTimers' = Append(Tail(reconnectTimers), ReconnectDelay)
  /\ wsState' = "closed"
  /\ obsBridgeRef' = obsBridgeRef
  /\ lastOp' = Op("connectThrows", 0, << >>)
  /\ Idle

NextChannel ==
  \/ \E index \in 0..(MaxSongs - 1) : PlaySong(index)
  \/ \E newSongs \in ImportBatches : AddSongs(newSongs)
  \/ \E data \in InboundMessages : WsMessage(data)
  \/ WsOpen
  \/ WsClose
  \/ WsError
  \/ Reconnect
  \/ ConnectThrows

\* An armed timer fires: the event loop runs every setTimeout callback.
SpecChannel ==
  Init /\ [][NextChannel]_vars /\ WF_vars(Reconnect \/ ConnectThrows)

(***************************************************************************)
(* C29: the channel cycles closed -> connecting -> open -> closed. Every   *)
(* close, error or failed construction leaves the channel closed with a    *)
(* reconnect timer armed; the channel always has a connecting or open      *)
(* socket or an armed timer; a socket opens only from connecting and an    *)
(* attempt starts only from closed; and whenever the channel is closed a   *)
(* new connection attempt is eventually made.                              *)
(***************************************************************************)
C29_ChannelReconnects ==
  /\ [](wsState \in {"connecting", "open"} \/ reconnectTimers # << >>)
  /\ [][ /\ lastOp'.name \in {"wsClose", "wsError", "connectThrows"}
            => (wsState' = "closed" /\ reconnectTimers' # << >>)
         /\ (wsState' = "open" /\ wsState # "open") => wsState = "connecting"
         /\ (wsState' = "connecting" /\ wsState # "connecting")
            => wsState = "closed" ]_vars
  /\ (wsState = "closed") ~> (lastOp.name \in {"reconnect", "connectThrows"})

\* The constructor threw in a retry: the channel is closed and the next retry
\* is armed.
C29_Witness ==
  /\ lastOp.name = "connectThrows"
  /\ wsState = "closed"
  /\ obsBridgeRef = "null"
  /\ reconnectTimers = << ReconnectDelay >>

(***************************************************************************)
(* C30: creating a playlist with a non-blank name appends to the catalog a *)
(* playlist with the trimmed name and no tracks, leaves the playlists that *)
(* existed unchanged, and makes the new playlist the active collection:    *)
(* the selection resolves to it, so the active collection has no tracks.   *)
(***************************************************************************)
C30_CreatePlaylist ==
  [][ (lastOp'.name = "createPlaylist" /\ trim(lastOp'.text) # << >>)
      => /\ playlists' = Append(playlists, [id |-> lastOp'.index,
                                            name |-> trim(lastOp'.text),
                                            songs |-> << >>])
         /\ selectedPlaylistId' = lastOp'.index
         /\ FindIndexById(playlists', selectedPlaylistId') = Len(playlists')
         /\ displaySongs' = << >> ]_vars

(***************************************************************************)
(* C31: in every reachable state the playlists of the catalog have         *)
(* pairwise distinct ids, also when two playlists are created at the same  *)
(* reading of the clock.                                                   *)
(***************************************************************************)
C31_PlaylistIdsDistinct ==
  \A i \in 1..Len(playlists) : \A j \in (i + 1)..Len(playlists) :
    playlists[i].id # playlists[j].id

(***************************************************************************)
(* C32: in every reachable state in which the active collection is empty,  *)
(* so that there is no current track, isPlaying is false.                  *)
(***************************************************************************)
C32_NoTrackNotPlaying == displaySongs = << >> => ~isPlaying

(***************************************************************************)
(* C33: while the channel is connected, every handler after which another  *)
(* track is the current one sends a track-change frame that names the new  *)
(* current track.                                                          *)
(***************************************************************************)
C33_TrackChangeAnnounced ==
  [][ ( /\ wsState = "open" /\ obsBridgeRef = "ws"
        /\ currentSong' # NoSong
        /\ currentSong'.path # currentSong.path )
      => \E k \in 1..Len(sent') :
           /\ "src" \in sent'[k].keys
           /\ sent'[k].src = currentSong'.path
           /\ sent'[k].trackName = currentSong'.name ]_vars

(***************************************************************************)
(* The component's unmount. The cleanup of the connect effect (App.tsx     *)
(* 109-111) calls close() on the socket obsBridgeRef holds, if any; it     *)
(* detaches no handler and clears no timer, so the socket's events and the *)
(* armed timers keep running connectToOBS's closures afterwards.           *)
(***************************************************************************)
Unmount ==
  /\ lifecycle = "mounted"
  /\ lifecycle' = IF obsBridgeRef = "ws" THEN "unmountedClosed" ELSE "unmountedLeft"
  /\ lastOp' = Op("unmount", 0, << >>)
  /\ sent' = << >>
  /\ engineCmds' = << >>
  /\ saved' = << >>
  /\ unhandledRejections' = << >>
  /\ UNCHANGED << songs, playlists, selectedPlaylistId, currentIndex, isPlaying,
                  draggedSong, now, audioLoaded, audioPaused, pendingPlay, wsState,
                  obsBridgeRef, skipHandlerRef, playlistHandlerRef,
                  libraryHandlerRef, reconnectTimers, volume, gainNodeRef,
                  visualizerEnabled, animateLoops, playBlocked, loadsPending >>

\* The handlers of the rendered component run only while it is mounted.
NextLifecycle ==
  \/ lifecycle = "mounted" /\ \E index \in 0..(MaxSongs - 1) : PlaySong(index)
  \/ lifecycle = "mounted" /\ \E newSongs \in ImportBatches : AddSongs(newSongs)
  \/ lifecycle = "mounted" /\ PlayNext
  \/ WsOpen
  \/ WsClose
  \/ Reconnect
  \/ Unmount

SpecLifecycle == Init /\ [][NextLifecycle]_vars

(***************************************************************************)
(* C34: the reconnect loop has at most one outstanding item at any time,   *)
(* counting the connecting or open socket and the armed timers together,   *)
(* and once the cleanup of the component has closed the socket no further  *)
(* connection attempt is made.                                             *)
(***************************************************************************)
Outstanding ==
  (IF wsState \in {"connecting", "open"} THEN 1 ELSE 0) + Len(reconnectTimers)

C34_SingleLoopUntilCleanup ==
  /\ [](Outstanding <= 1)
  /\ [][lifecycle = "unmountedClosed" => lastOp'.name # "reconnect"]_vars

(***************************************************************************)
(* C35: removing a row other than the current one from the active          *)
(* collection preserves the current track: the track at currentIndex after *)
(* the removal is the track that was at currentIndex before it, and the    *)
(* element is not made to load anything.                                   *)
(***************************************************************************)
C35_CurrentTrackPreserved ==
  [][ (lastOp'.name = "removeSong" /\ lastOp'.index # currentIndex)
      => /\ currentSong' = currentSong
         /\ audioLoaded' = audioLoaded
         /\ \A k \in 1..Len(engineCmds') : engineCmds'[k].cmd # "load" ]_vars

\* The row before the current one was removed from a playlist of two: the
\* current track, track2, moved from index 1 to index 0 and is still loaded
\* and playing.
C35_Witness ==
  /\ lastOp.name = "removeSong"
  /\ lastOp.note = "before"
  /\ lastOp.index = 0
  /\ currentIndex = 0
  /\ displaySongs = << Song2 >>
  /\ audioLoaded = Song2.path
  /\ isPlaying
  /\ ~audioPaused

(***************************************************************************)
(* removeSongFromPlaylist as a function of its arguments (App.tsx          *)
(* 255-277): the remove button passes the selected playlist (RemoveSong);  *)
(* here the playlist is any playlist of the catalog and the row any row    *)
(* of it. lastOp.origin is the playlist's id.                              *)
(***************************************************************************)
RemoveSongFrom(playlistId, songIndex) ==
  /\ draggedSong = NoSong
  /\ FindIndexById(playlists, playlistId) # 0
  /\ songIndex \in 0..(Len(playlists[FindIndexById(playlists, playlistId)].songs) - 1)
  /\ removeSongFromPlaylist(playlistId, songIndex)
  /\ sent' = << >>
  /\ lastOp' = [Op("removeSongFrom", songIndex, << >>) EXCEPT !.origin = playlistId]
  /\ Quiet

NextFrame ==
  \/ \E index \in 0..(MaxSongs - 1) : PlaySong(index)
  \/ \E newSongs \in ImportBatches : AddSongs(newSongs)
  \/ \E input \in NameInputs, t \in 1..MaxClock : CreatePlaylist(MaxCatalog, input, t)
  \/ SelectLibrary
  \/ \E id \in 1..MaxClock : SelectPlaylist(id)
  \/ \E song \in SongPool : SongDragStart(song)
  \/ \E id \in 1..MaxClock : PlaylistDrop(id)
  \/ \E id \in 1..MaxClock, songIndex \in 0..(MaxSongs - 1) : RemoveSongFrom(id, songIndex)
  \/ WsOpen

SpecFrame == Init /\ [][NextFrame]_vars

(***************************************************************************)
(* C36: adding a track to, or removing a track from, a playlist that is    *)
(* not the active collection leaves the active collection and its tracks,  *)
(* currentIndex and isPlaying unchanged and sends nothing to the bridge.   *)
(***************************************************************************)
C36_OtherPlaylistFrame ==
  [][ ( \/ lastOp'.name = "playlistDrop" /\ lastOp'.index # selectedPlaylistId
        \/ lastOp'.name = "removeSongFrom" /\ lastOp'.origin # selectedPlaylistId )
      => /\ UNCHANGED << selectedPlaylistId, currentIndex, isPlaying >>
         /\ displaySongs' = displaySongs
         /\ sent' = << >>
         /\ engineCmds' = << >> ]_vars

\* Row 0 of a playlist that is not selected was removed, leaving that playlist
\* empty, while row 1 of the library plays with the channel open.
C36_Witness ==
  /\ lastOp.name = "removeSongFrom"
  /\ lastOp.index = 0
  /\ selectedPlaylistId = NullId
  /\ FindIndexById(playlists, lastOp.origin) # 0
  /\ playlists[FindIndexById(playlists, lastOp.origin)].songs = << >>
  /\ currentIndex = 1
  /\ isPlaying
  /\ ~audioPaused
  /\ wsState = "open"

(***************************************************************************)
(* The startup loads. On mount the app calls loadSavedSongs and            *)
(* loadSavedPlaylists (App.tsx 51-54); each awaits the store and then      *)
(* replaces the state with what the store returned (setSongs(savedSongs),  *)
(* setPlaylists(savedPlaylists)). The store holds what an earlier session  *)
(* saved; its playlist got its id at an earlier reading of the clock.      *)
(***************************************************************************)
StoredSongs == << Song2 >>
StoredPlaylists == << [id |-> 1, name |-> <<"c", "h">>, songs |-> << Song2 >>] >>

\* loadSavedSongs after its await
LoadSongsDone ==
  /\ "songs" \in loadsPending
  /\ CommitWith(StoredSongs, playlists, selectedPlaylistId, currentIndex, isPlaying,
                audioPaused, pendingPlay, << >>, loadsPending \ {"songs"})
  /\ sent' = << >>
  /\ lastOp' = Op("loadSongs", 0, << >>)
  /\ Quiet

\* loadSavedPlaylists after its await
LoadPlaylistsDone ==
  /\ "playlists" \in loadsPending
  /\ CommitWith(songs, StoredPlaylists, selectedPlaylistId, currentIndex, isPlaying,
                audioPaused, pendingPlay, << >>, loadsPending \ {"playlists"})
  /\ sent' = << >>
  /\ lastOp' = Op("loadPlaylists", 0, << >>)
  /\ Quiet

NextStartup ==
  \/ LoadSongsDone
  \/ LoadPlaylistsDone
  \/ \E index \in 0..(MaxSongs - 1) : PlaySong(index)
  \/ \E newSongs \in ImportBatches : AddSongs(newSongs)
  \/ \E input \in NameInputs, t \in 2..MaxClock : CreatePlaylist(MaxCatalog, input, t)
  \/ \E id \in 1..MaxClock : DeletePlaylist(id)
  \/ SelectLibrary
  \/ \E id \in 1..MaxClock : SelectPlaylist(id)

SpecStartup ==
  MountWith(FALSE, FALSE, {"songs", "playlists"}) /\ [][NextStartup]_vars

(***************************************************************************)
(* C37: in every reachable state the selection is the library or the id of *)
(* a playlist that exists in the catalog, so the tracks used for playback  *)
(* are those of the collection recorded as active.                         *)
(***************************************************************************)
C37_SelectionExists ==
  selectedPlaylistId # NullId => FindIndexById(playlists, selectedPlaylistId) # 0

(***************************************************************************)
(* C38: the completion of a startup load discards no user mutation made    *)
(* before it: every track of the library before loadSavedSongs applies its *)
(* result is in the library after it, and every playlist of the catalog    *)
(* before loadSavedPlaylists applies its result is in the catalog after.   *)
(***************************************************************************)
C38_LoadKeepsMutations ==
  [][ /\ lastOp'.name = "loadSongs"
         => \A i \in 1..Len(songs) : \E j \in 1..Len(songs') : songs'[j] = songs[i]
      /\ lastOp'.name = "loadPlaylists"
         => \A i \in 1..Len(playlists) :
              \E j \in 1..Len(playlists') : playlists'[j].id = playlists[i].id ]_vars

(***************************************************************************)
(* C39: at most one sampling loop of the visualizer is running at any      *)
(* time, whatever the number of pause/play cycles.                         *)
(***************************************************************************)
C39_SingleSamplingLoop == animateLoops <= 1

====
